---- MODULE Spec2Model ----
(***************************************************************************)
(* Model of torch_staintools:                                              *)
(*   normalizer/separation.py            StainSeperation (fit, transform,  *)
(*                                       fix_source_stain_matrix)          *)
(*   functional/optimization/dict_learning.py                              *)
(*                                       update_dict, sparse_encode,       *)
(*                                       dict_learning, get_concentrations *)
(* Tensors produced by the external collaborators (stain extractor, ista,  *)
(* coord_descent, percentile, rgb2od) are represented by records naming    *)
(* the collaborator and its arguments.  An optional attribute/buffer is a  *)
(* sequence of length 0 (absent) or 1 (present).                           *)
(***************************************************************************)
EXTENDS Integers, Sequences, FiniteSets, TLC

\* ------------------------------------------------------------------------
\* Bounds
\* ------------------------------------------------------------------------
MaxBatch == 2
MaxCalls == 3
MaxDim == 2
MaxSteps == 3

\* real numbers are fixed-point integers: the real r is the integer r * Scale
Scale == 1000
\* 1 / eps for update_dict's default eps = 1e-7
EpsInv == 10000000
\* the sizes update_dict is run on
NSamples == 2
NFeatures == 2
NComponents == 2

Images == {"a", "b"}

Batches == UNION {[1..n -> Images] : n \in 0..MaxBatch}

Methods == {"ista", "cd", "bad"}

Min(a, b) == IF a <= b THEN a ELSE b

VARIABLES
    reconst_method,          \* self.reconst_method
    stain_matrix_target,     \* buffer 'stain_matrix_target'
    target_concentrations,   \* buffer 'target_concentrations'
    maxC_target,             \* buffer 'maxC_target'
    stain_matrix_source,     \* buffer 'stain_matrix_source'
    ncalls,                  \* number of calls issued on the object
    last,                    \* what the last call did
    fits_ok                  \* ids of the fit calls that returned

nvars == <<reconst_method, stain_matrix_target, target_concentrations,
           maxC_target, stain_matrix_source, ncalls, last, fits_ok>>

VARIABLES
    enc,                     \* the last sparse_encode call: arguments and effects
    conc_call                \* the last get_concentrations call

evars == <<enc>>
cvars == <<conc_call>>

VARIABLES
    d_pc,                    \* position in dict_learning
    d_args,                  \* steps, constrained, persist, algorithm
    d_i,                     \* loop index i
    d_weight,                \* weight
    d_Z0,                    \* Z0
    d_Z,                     \* Z
    d_losses,                \* losses
    d_trace                  \* the sub-steps called so far, in order

VARIABLES
    u_pc,                    \* "args": arguments chosen, "done": update_dict returned
    u_args,                  \* dictionary, x, code, positive as passed
    u_dictionary,            \* dictionary after the call
    u_code,                  \* code after the call (its columns are zeroed in place)
    u_reseeded               \* the atoms the call reseeded

uvars == <<u_pc, u_args, u_dictionary, u_code, u_reseeded>>

dvars == <<d_pc, d_args, d_i, d_weight, d_Z0, d_Z, d_losses, d_trace>>

\* ------------------------------------------------------------------------
\* get_concentrations (dict_learning.py)
\* ------------------------------------------------------------------------

\* the match statement of get_concentrations_helper: does `method` name a solver
HelperAccepts(method) == method \in {"cd", "ista"}

\* get_concentrations_helper: the concentration of one image against one stain
\* matrix; <<>> stands for the NotImplementedError
get_concentrations_helper(od_single, stain_mat_single, method) ==
    IF HelperAccepts(method)
    THEN <<[img |-> od_single, sm |-> stain_mat_single, solver |-> method]>>
    ELSE <<>>

\* zip(od_flatten, stain_matrix): stops at the shorter of the two
ZipLen(image, stain_matrix) == Min(Len(image), Len(stain_matrix))

\* rgb2od(image), flattened and permuted: one optical-density matrix per image
OdFlatten(image) == [i \in 1..Len(image) |-> [od_of |-> image[i]]]

\* get_concentrations: [ok, val]; ok = FALSE when a helper call raised or
\* torch.stack received an empty list
get_concentrations(image, stain_matrix, algorithm) ==
    LET od_flatten == OdFlatten(image)
        n == ZipLen(od_flatten, stain_matrix)
        result == [i \in 1..n |->
                     get_concentrations_helper(od_flatten[i], stain_matrix[i],
                                               algorithm)]
    IN  IF n = 0 \/ \E i \in 1..n : result[i] = <<>>
        THEN [ok |-> FALSE, val |-> <<>>]
        ELSE [ok |-> TRUE, val |-> [i \in 1..n |-> result[i][1]]]

\* ------------------------------------------------------------------------
\* StainSeperation (separation.py)
\* ------------------------------------------------------------------------

\* the stain matrix the extractor returns for an image batch: 1 x 2 x 3
ExtractStainMatrix(image) == <<[extracted_from |-> image]>>

\* percentile(conc_transpose, 99, dim=1)
Percentile99(conc) == [q |-> 99, of |-> conc]

RECURSIVE Repeat(_, _)
Repeat(s, n) == IF n <= 0 THEN <<>> ELSE s \o Repeat(s, n - 1)

\* repeat_stain_mat: the stain matrix repeated image.shape[0] times along dim 0
repeat_stain_mat(stain_mat, image) == Repeat(stain_mat, Len(image))

\* faulty variant of FitAssert: only an empty batch is rejected
FitAssert_NonEmpty(target) == Len(target) >= 1

\* `assert target.shape[0] == 1`
FitAssert(target) == Len(target) = 1

\* faulty variant of HasFixedSource: the stored source stain matrix is never seen
HasFixedSource_Never == FALSE

\* `hasattr(self, 'stain_matrix_source')`
HasFixedSource == stain_matrix_source # <<>>

\* faulty variant of RegisterMaxC: the percentile scale is not registered
RegisterMaxC_Forgotten(call, conc) == maxC_target

\* `self.register_buffer('maxC_target', percentile(conc_transpose, 99, dim=1))`
RegisterMaxC(call, conc) == <<[call |-> call, val |-> Percentile99(conc)]>>

\* the buffers fit registers, in the order fit registers them, and whether fit
\* returned; a raise keeps what was registered before it
FitOutcome(target, extractor_ok, call) ==
    LET keep == [ok |-> FALSE, extracted |-> <<>>, conc_called |-> FALSE,
                 smt |-> stain_matrix_target, tc |-> target_concentrations,
                 mc |-> maxC_target]
    IN  IF ~FitAssert(target) THEN keep
        ELSE IF ~extractor_ok THEN [keep EXCEPT !.extracted = <<target>>]
        ELSE LET smt  == <<[call |-> call, val |-> ExtractStainMatrix(target)]>>
                 conc == get_concentrations(target, smt[1].val, reconst_method)
             IN  IF ~conc.ok
                 THEN [keep EXCEPT !.extracted = <<target>>, !.conc_called = TRUE,
                                   !.smt = smt]
                 ELSE [ok |-> TRUE, extracted |-> <<target>>, conc_called |-> TRUE,
                       smt |-> smt,
                       tc  |-> <<[call |-> call, val |-> conc.val]>>,
                       mc  |-> RegisterMaxC(call, conc.val)]

\* fit(target)
Fit(target, extractor_ok) ==
    /\ ncalls < MaxCalls
    /\ LET r == FitOutcome(target, extractor_ok, ncalls + 1)
       IN  /\ stain_matrix_target' = r.smt
           /\ target_concentrations' = r.tc
           /\ maxC_target' = r.mc
           /\ fits_ok' = IF r.ok THEN fits_ok \cup {ncalls + 1} ELSE fits_ok
           /\ last' = [op |-> "fit", ok |-> r.ok, image |-> target,
                       extracted |-> r.extracted, conc_called |-> r.conc_called,
                       src |-> <<>>, out |-> <<>>]
    /\ ncalls' = ncalls + 1
    /\ UNCHANGED <<reconst_method, stain_matrix_source>>

\* fix_source_stain_matrix(image)
FixSourceStainMatrix(image, extractor_ok) ==
    /\ ncalls < MaxCalls
    /\ stain_matrix_source' =
         IF extractor_ok
         THEN <<[call |-> ncalls + 1, val |-> ExtractStainMatrix(image)]>>
         ELSE stain_matrix_source
    /\ last' = [op |-> "fix", ok |-> extractor_ok, image |-> image,
                extracted |-> <<image>>, conc_called |-> FALSE,
                src |-> <<>>, out |-> <<>>]
    /\ ncalls' = ncalls + 1
    /\ UNCHANGED <<reconst_method, stain_matrix_target, target_concentrations,
                   maxC_target, fits_ok>>

\* faulty variant of ReadTargets: the target attributes have class-level
\* defaults, so the lookups succeed on an object that was never fit
ReadTargets_Defaulted ==
    [ok |-> TRUE,
     maxC |-> IF maxC_target = <<>> THEN Percentile99(<<>>) ELSE maxC_target[1].val,
     basis |-> IF stain_matrix_target = <<>> THEN <<>>
               ELSE stain_matrix_target[1].val]

\* `self.maxC_target` and `self.stain_matrix_target` read in transform: an
\* attribute lookup raises while the buffer is not registered
ReadTargets ==
    IF maxC_target = <<>> \/ stain_matrix_target = <<>>
    THEN [ok |-> FALSE, maxC |-> Percentile99(<<>>), basis |-> <<>>]
    ELSE [ok |-> TRUE, maxC |-> maxC_target[1].val,
          basis |-> stain_matrix_target[1].val]

\* what transform does and returns
TransformOutcome(image, extractor_ok) ==
    LET fail == [ok |-> FALSE, extracted |-> <<>>, conc_called |-> FALSE,
                 src |-> <<>>, out |-> <<>>]
        extracted == IF HasFixedSource THEN <<>> ELSE <<image>>
    IN  IF ~HasFixedSource /\ ~extractor_ok
        THEN [fail EXCEPT !.extracted = extracted]
        ELSE LET one  == IF HasFixedSource THEN stain_matrix_source[1].val
                         ELSE ExtractStainMatrix(image)
                 src  == repeat_stain_mat(one, image)
                 conc == get_concentrations(image, src, reconst_method)
                 mc   == ReadTargets
                 part == [fail EXCEPT !.extracted = extracted,
                                      !.conc_called = TRUE, !.src = src]
             IN  IF ~conc.ok \/ ~mc.ok THEN part
                 ELSE [part EXCEPT !.ok = TRUE,
                         !.out = <<[image |-> image,
                                    conc |-> conc.val,
                                    scale_num |-> mc.maxC,
                                    scale_den |-> Percentile99(conc.val),
                                    basis |-> mc.basis]>>]

\* transform(image)
Transform(image, extractor_ok) ==
    /\ ncalls < MaxCalls
    /\ LET r == TransformOutcome(image, extractor_ok)
       IN  last' = [op |-> "transform", ok |-> r.ok, image |-> image,
                    extracted |-> r.extracted, conc_called |-> r.conc_called,
                    src |-> r.src, out |-> r.out]
    /\ ncalls' = ncalls + 1
    /\ UNCHANGED <<reconst_method, stain_matrix_target, target_concentrations,
                   maxC_target, stain_matrix_source, fits_ok>>

NoCall == [op |-> "none", ok |-> FALSE, image |-> <<>>, extracted |-> <<>>,
           conc_called |-> FALSE, src |-> <<>>, out |-> <<>>]

\* StainSeperation.__init__
NInit ==
    /\ reconst_method \in Methods
    /\ stain_matrix_target = <<>>
    /\ target_concentrations = <<>>
    /\ maxC_target = <<>>
    /\ stain_matrix_source = <<>>
    /\ ncalls = 0
    /\ last = NoCall
    /\ fits_ok = {}

\* ------------------------------------------------------------------------
\* sparse_encode (dict_learning.py)
\* ------------------------------------------------------------------------

Algorithms == {"cd", "ista", "iter-ridge", "lstsq"}
InitModes == {"none", "zero", "ridge"}
Dims == 1..MaxDim

\* a supplied z0 is given by its shape; <<>> is z0 = None
Z0Args == {<<>>} \cup {<<<<r, c>>>> : r \in Dims, c \in Dims}

\* `_init_defaults.get(algorithm, 'zero')`
InitDefault(algorithm) ==
    CASE algorithm = "ista" -> "zero"
      [] algorithm = "cd" -> "zero"
      [] OTHER -> "zero"

\* faulty variant of InitializeBlock: the zero-initialisation warning is lost
InitializeBlock_Silent(n_samples, n_components, z0, algorithm, init) ==
    IF z0 # <<>>
    THEN [ok |-> z0[1] = <<n_samples, n_components>>, events |-> <<>>,
          mode |-> "given"]
    ELSE [ok |-> TRUE, events |-> <<"initialize_code">>,
          mode |-> IF init = "none" THEN InitDefault(algorithm) ELSE init]

\* the code-initialisation block of sparse_encode: the calls it makes, or the
\* failed shape assertion
InitializeBlock(n_samples, n_components, z0, algorithm, init) ==
    IF z0 # <<>>
    THEN [ok |-> z0[1] = <<n_samples, n_components>>, events |-> <<>>,
          mode |-> "given"]
    ELSE LET mode == IF init = "none" THEN InitDefault(algorithm) ELSE init
             warn == init = "zero" /\ algorithm = "iter-ridge"
         IN  [ok |-> TRUE,
              events |-> (IF warn THEN <<"warn">> ELSE <<>>)
                            \o <<"initialize_code">>,
              mode |-> mode]

\* sparse_encode: outcome is "return", "AssertionError" or "ValueError";
\* events are the warning and the collaborator calls made, in order
sparse_encode(n_samples, n_components, z0, algorithm, init) ==
    LET b == InitializeBlock(n_samples, n_components, z0, algorithm, init)
    IN  IF ~b.ok
        THEN [outcome |-> "AssertionError", events |-> <<>>, mode |-> b.mode,
              message |-> ""]
        ELSE CASE algorithm = "cd" ->
                    [outcome |-> "return", events |-> b.events \o <<"coord_descent">>,
                     mode |-> b.mode, message |-> ""]
               [] algorithm = "ista" ->
                    [outcome |-> "return", events |-> b.events \o <<"ista">>,
                     mode |-> b.mode, message |-> ""]
               [] OTHER ->
                    [outcome |-> "ValueError", events |-> b.events,
                     mode |-> b.mode, message |-> algorithm]

EncNone == [called |-> FALSE, n_samples |-> 1, n_components |-> 1, z0 |-> <<>>,
            algorithm |-> "ista", init |-> "none",
            res |-> [outcome |-> "none", events |-> <<>>, mode |-> "given",
                     message |-> ""]]

\* a call of sparse_encode
SparseEncodeCall(n_samples, n_components, z0, algorithm, init) ==
    enc' = [called |-> TRUE, n_samples |-> n_samples,
            n_components |-> n_components, z0 |-> z0,
            algorithm |-> algorithm, init |-> init,
            res |-> sparse_encode(n_samples, n_components, z0, algorithm, init)]

\* ------------------------------------------------------------------------
\* calls of get_concentrations
\* ------------------------------------------------------------------------

Stains == {"s1", "s2"}
StainBatches == UNION {[1..n -> Stains] : n \in 0..MaxBatch}

ConcNone == [called |-> FALSE, image |-> <<>>, stain_matrix |-> <<>>,
             algorithm |-> "ista", res |-> [ok |-> FALSE, val |-> <<>>]]

GetConcentrationsCall(image, stain_matrix, algorithm) ==
    conc_call' = [called |-> TRUE, image |-> image, stain_matrix |-> stain_matrix,
                  algorithm |-> algorithm,
                  res |-> get_concentrations(image, stain_matrix, algorithm)]

\* ------------------------------------------------------------------------
\* update_dict (dict_learning.py)
\* A matrix is a function row -> column -> entry; dictionary[f][k] is entry f
\* of atom k.  code entries are whole numbers, x and dictionary entries are
\* fixed-point.
\* ------------------------------------------------------------------------

Samples == 1..NSamples
Features == 1..NFeatures
Components == 1..NComponents

RECURSIVE SumTo(_, _)
\* f[1] + ... + f[n]
SumTo(f, n) == IF n = 0 THEN 0 ELSE f[n] + SumTo(f, n - 1)

RECURSIVE SqrtBetween(_, _, _)
SqrtBetween(n, lo, hi) ==
    IF lo >= hi THEN lo
    ELSE LET mid == (lo + hi + 1) \div 2
         IN  IF mid * mid <= n THEN SqrtBetween(n, mid, hi)
             ELSE SqrtBetween(n, lo, mid - 1)

\* the integer square root
ISqrt(n) == SqrtBetween(n, 0, Min(n, 40000))

\* Tensor.norm() of a fixed-point vector, fixed-point
Norm(v) == ISqrt(SumTo([f \in Features |-> v[f] * v[f]], NFeatures))

\* clamp_(0, None)
Clamp0(v) == [f \in Features |-> IF v[f] < 0 THEN 0 ELSE v[f]]

\* abs()
Abs(v) == [f \in Features |-> IF v[f] < 0 THEN 0 - v[f] ELSE v[f]]

\* `atom_norm < eps`, the norm fixed-point: norm / Scale < 1 / EpsInv
BelowEps(norm) == norm < (Scale + EpsInv - 1) \div EpsInv

\* v / norm for norm > 0
Divide(v, norm) == [f \in Features |-> (v[f] * Scale) \div norm]

\* v / (norm + get_eps(dictionary)): get_eps is far below the fixed-point
\* resolution, so it only matters for norm = 0, where 0 / get_eps = 0
DivideEps(v, norm) == IF norm = 0 THEN [f \in Features |-> 0] ELSE Divide(v, norm)

\* the reseeded atom: normal_ drew `seed`; clamp and abs when positive; scale
Reseed(seed, positive) ==
    LET a == IF positive THEN Abs(Clamp0(seed)) ELSE seed
    IN  DivideEps(a, Norm(a))

\* R = x - code @ dictionary.T
Residual(dictionary, x, code) ==
    [s \in Samples |-> [f \in Features |->
        x[s][f] - SumTo([k \in Components |-> code[s][k] * dictionary[f][k]],
                        NComponents)]]

\* R + sign * outer(code[:, k], dictionary[:, k])
AddOuter(R, code, dictionary, k, sign) ==
    [s \in Samples |-> [f \in Features |->
        R[s][f] + sign * code[s][k] * dictionary[f][k]]]

\* dictionary with atom k replaced
SetAtom(dictionary, k, atom) ==
    [f \in Features |-> [dictionary[f] EXCEPT ![k] = atom[f]]]

\* code with column k zeroed
ZeroColumn(code, k) == [s \in Samples |-> [code[s] EXCEPT ![k] = 0]]

\* one pass of the loop body, for atom k; st holds dictionary, R, code and
\* the set of reseeded atoms; draws[k] is what normal_ would draw for atom k
UpdateAtom(st, k, positive, draws) ==
    LET R1   == AddOuter(st.R, st.code, st.dictionary, k, 1)
        raw  == [f \in Features |->
                   SumTo([s \in Samples |-> st.code[s][k] * R1[s][f]], NSamples)]
        atom == IF positive THEN Clamp0(raw) ELSE raw
        atom_norm == Norm(atom)
    IN  IF BelowEps(atom_norm)
        THEN [dictionary |-> SetAtom(st.dictionary, k, Reseed(draws[k], positive)),
              R |-> R1,
              code |-> ZeroColumn(st.code, k),
              reseeded |-> st.reseeded \cup {k}]
        ELSE LET d == SetAtom(st.dictionary, k, Divide(atom, atom_norm))
             IN  [dictionary |-> d,
                  R |-> AddOuter(R1, st.code, d, k, 0 - 1),
                  code |-> st.code,
                  reseeded |-> st.reseeded]

RECURSIVE UpdateAtoms(_, _, _, _)
\* the loop `for k in range(n_components)` from atom k on
UpdateAtoms(st, k, positive, draws) ==
    IF k > NComponents THEN st
    ELSE UpdateAtoms(UpdateAtom(st, k, positive, draws), k + 1, positive, draws)

\* update_dict(dictionary, x, code, positive)
update_dict(dictionary, x, code, positive, draws) ==
    UpdateAtoms([dictionary |-> dictionary, R |-> Residual(dictionary, x, code),
                 code |-> code, reseeded |-> {}],
                1, positive, draws)

\* the inputs update_dict is run on
UnitAtoms == {<<Scale, 0>> \o [j \in 1..(NFeatures - 2) |-> 0],
              <<0, Scale>> \o [j \in 1..(NFeatures - 2) |-> 0],
              <<(3 * Scale) \div 5, (4 * Scale) \div 5>>
                  \o [j \in 1..(NFeatures - 2) |-> 0]}
Dictionaries ==
    {[f \in Features |-> [k \in Components |-> cols[k][f]]] :
        cols \in [Components -> UnitAtoms]}
Observations == [Samples -> [Features -> {0, Scale}]]
Codes == [Samples -> [Components -> {0, 1}]]
Draws == [Components -> [Features -> {0 - Scale, Scale}]]

UArgsNone == [dictionary |-> <<>>, x |-> <<>>, code |-> <<>>, positive |-> TRUE]

UIdle ==
    /\ u_pc = "idle"
    /\ u_args = UArgsNone
    /\ u_dictionary = <<>>
    /\ u_code = <<>>
    /\ u_reseeded = {}

\* the caller's arguments
UInit ==
    /\ u_pc = "args"
    /\ u_args \in [dictionary : Dictionaries, x : Observations, code : Codes,
                   positive : BOOLEAN]
    /\ u_dictionary = <<>>
    /\ u_code = <<>>
    /\ u_reseeded = {}

\* the call of update_dict
UpdateDictCall(draws) ==
    /\ u_pc = "args"
    /\ LET r == update_dict(u_args.dictionary, u_args.x, u_args.code,
                            u_args.positive, draws)
       IN  /\ u_dictionary' = r.dictionary
           /\ u_code' = r.code
           /\ u_reseeded' = r.reseeded
    /\ u_pc' = "done"
    /\ UNCHANGED u_args

\* ------------------------------------------------------------------------
\* dict_learning (dict_learning.py)
\* ------------------------------------------------------------------------

\* faulty variant of LoopContinues: the loop stops one iteration early
LoopContinues_Short(i, steps) == i < steps - 1

\* `for i in range(steps)`
LoopContinues(i, steps) == i < steps

DArgsNone == [steps |-> 0, constrained |-> TRUE, persist |-> FALSE,
              algorithm |-> "ista"]

DIdle ==
    /\ d_pc = "idle"
    /\ d_args = DArgsNone
    /\ d_i = 0
    /\ d_weight = [by |-> "none", step |-> 0]
    /\ d_Z0 = <<>>
    /\ d_Z = <<>>
    /\ d_losses = <<>>
    /\ d_trace = <<>>

\* entry: weight initialised (randn, orthogonal_, normalised when
\* constrained), Z0 = None, losses = zeros(steps)
DLStart(steps, constrained, persist, algorithm) ==
    /\ d_pc = "idle"
    /\ d_args' = [steps |-> steps, constrained |-> constrained,
                  persist |-> persist, algorithm |-> algorithm]
    /\ d_weight' = [by |-> IF constrained THEN "normalize" ELSE "orthogonal_",
                    step |-> 0]
    /\ d_Z0' = <<>>
    /\ d_Z' = <<>>
    /\ d_losses' = [j \in 1..steps |-> [set |-> FALSE, of |-> 0]]
    /\ d_i' = 0
    /\ d_trace' = <<>>
    /\ d_pc' = "loop"

\* Z = sparse_encode(x, weight, alpha, Z0, **solver_kwargs)
DLEncode ==
    /\ d_pc = "loop"
    /\ LoopContinues(d_i, d_args.steps)
    /\ LET z0 == IF d_Z0 = <<>> THEN <<>> ELSE <<<<1, 1>>>>
           r  == sparse_encode(1, 1, z0, d_args.algorithm, "none")
       IN  /\ d_trace' = d_trace \o <<"sparse_encode">>
           /\ IF r.outcome = "return"
              THEN /\ d_Z' = <<[step |-> d_i + 1, weight |-> d_weight,
                                warm |-> d_Z0 # <<>>]>>
                   /\ d_pc' = "loss"
              ELSE /\ d_Z' = d_Z
                   /\ d_pc' = "raised"
    /\ UNCHANGED <<d_args, d_i, d_weight, d_Z0, d_losses>>

\* losses[i] = lasso_loss(x, Z, weight, alpha); if persist: Z0 = Z
DLLoss ==
    /\ d_pc = "loss"
    /\ d_losses' = [d_losses EXCEPT ![d_i + 1] = [set |-> TRUE, of |-> d_i + 1]]
    /\ d_Z0' = IF d_args.persist THEN d_Z ELSE d_Z0
    /\ d_trace' = d_trace \o <<"lasso_loss">>
    /\ d_pc' = "update"
    /\ UNCHANGED <<d_args, d_i, d_weight, d_Z>>

\* weight = update_dict(...) or update_dict_ridge(...), whose Cholesky
\* factorisation may raise; then the next i
DLUpdate(cholesky_ok) ==
    /\ d_pc = "update"
    /\ IF d_args.constrained
       THEN /\ d_trace' = d_trace \o <<"update_dict">>
            /\ d_weight' = [by |-> "update_dict", step |-> d_i + 1]
            /\ d_i' = d_i + 1
            /\ d_pc' = "loop"
       ELSE /\ d_trace' = d_trace \o <<"update_dict_ridge">>
            /\ IF cholesky_ok
               THEN /\ d_weight' = [by |-> "update_dict_ridge", step |-> d_i + 1]
                    /\ d_i' = d_i + 1
                    /\ d_pc' = "loop"
               ELSE /\ UNCHANGED <<d_weight, d_i>>
                    /\ d_pc' = "raised"
    /\ UNCHANGED <<d_args, d_Z0, d_Z, d_losses>>

\* return weight, losses
DLReturn ==
    /\ d_pc = "loop"
    /\ ~LoopContinues(d_i, d_args.steps)
    /\ d_pc' = "done"
    /\ UNCHANGED <<d_args, d_i, d_weight, d_Z0, d_Z, d_losses, d_trace>>

\* ------------------------------------------------------------------------
\* Specifications
\* ------------------------------------------------------------------------

vars == <<nvars, evars, cvars, uvars, dvars>>

NIdle ==
    /\ reconst_method = "ista"
    /\ stain_matrix_target = <<>>
    /\ target_concentrations = <<>>
    /\ maxC_target = <<>>
    /\ stain_matrix_source = <<>>
    /\ ncalls = 0
    /\ last = NoCall
    /\ fits_ok = {}

EIdle == enc = EncNone
CIdle == conc_call = ConcNone

\* the normalizer object under any sequence of calls
Init == NInit /\ EIdle /\ CIdle /\ UIdle /\ DIdle

Next ==
    \/ \E target \in Batches, e \in BOOLEAN :
          Fit(target, e) /\ UNCHANGED <<evars, cvars, uvars, dvars>>
    \/ \E image \in Batches, e \in BOOLEAN :
          FixSourceStainMatrix(image, e) /\ UNCHANGED <<evars, cvars, uvars, dvars>>
    \/ \E image \in Batches, e \in BOOLEAN :
          Transform(image, e) /\ UNCHANGED <<evars, cvars, uvars, dvars>>

Spec == Init /\ [][Next]_vars

\* sparse_encode on any arguments
EncInit == NIdle /\ EIdle /\ CIdle /\ UIdle /\ DIdle

EncNext ==
    \E n \in Dims, c \in Dims, z0 \in Z0Args, a \in Algorithms, i \in InitModes :
        SparseEncodeCall(n, c, z0, a, i) /\ UNCHANGED <<nvars, cvars, uvars, dvars>>

SpecEncode == EncInit /\ [][EncNext]_vars

\* get_concentrations on any image batch and stain-matrix batch
ConcInit == NIdle /\ EIdle /\ CIdle /\ UIdle /\ DIdle

ConcNext ==
    \E image \in Batches, sm \in StainBatches, a \in Methods :
        GetConcentrationsCall(image, sm, a) /\ UNCHANGED <<nvars, evars, uvars, dvars>>

SpecConc == ConcInit /\ [][ConcNext]_vars

\* one run of dict_learning
DLInit == NIdle /\ EIdle /\ CIdle /\ UIdle /\ DIdle

DLNext ==
    \/ \E steps \in 0..MaxSteps, c \in BOOLEAN, p \in BOOLEAN, a \in Algorithms :
          DLStart(steps, c, p, a) /\ UNCHANGED <<nvars, evars, cvars, uvars>>
    \/ DLEncode /\ UNCHANGED <<nvars, evars, cvars, uvars>>
    \/ DLLoss /\ UNCHANGED <<nvars, evars, cvars, uvars>>
    \/ \E ok \in BOOLEAN : DLUpdate(ok) /\ UNCHANGED <<nvars, evars, cvars, uvars>>
    \/ DLReturn /\ UNCHANGED <<nvars, evars, cvars, uvars>>

SpecDL == DLInit /\ [][DLNext]_vars

\* update_dict on any arguments and any random draws
UpdInit == NIdle /\ EIdle /\ CIdle /\ UInit /\ DIdle

UpdNext ==
    \E draws \in Draws :
        UpdateDictCall(draws) /\ UNCHANGED <<nvars, evars, cvars, dvars>>

SpecUpdateDict == UpdInit /\ [][UpdNext]_vars

\* ------------------------------------------------------------------------
\* Properties of the normalizer
\* ------------------------------------------------------------------------

\* this step is a call of `op` on the object
CallStep(op) == ncalls' = ncalls + 1 /\ last'.op = op

\* C1: a transform issued while no fit call has returned yet (with or without
\* a fixed source stain matrix) raises and returns no image; so a transform
\* returns an image only after a successful fit.
C1_FitBeforeTransform ==
    [][CallStep("transform") /\ fits_ok = {} => ~last'.ok /\ last'.out = <<>>]_vars

C1_Witness ==
    /\ last.op = "transform"
    /\ fits_ok = {}
    /\ stain_matrix_source # <<>>
    /\ last.conc_called
    /\ ~last.ok

\* C2: a fit whose target batch size is not 1 raises without invoking the
\* extractor or the concentration estimator and leaves the three target
\* buffers as they were.
C2_FitBatchGuard ==
    [][CallStep("fit") /\ Len(last'.image) # 1
         => /\ ~last'.ok
            /\ last'.extracted = <<>>
            /\ ~last'.conc_called
            /\ UNCHANGED <<stain_matrix_target, target_concentrations,
                           maxC_target>>]_vars

C2_Witness ==
    /\ last.op = "fit"
    /\ Len(last.image) = 2
    /\ ~last.ok
    /\ maxC_target # <<>>

\* C3: a transform of an object holding a fixed source stain matrix uses that
\* stored matrix (repeated over the batch) and does not invoke the extractor,
\* and a stored matrix is never dropped again; a transform of an object with
\* no fixed source invokes the extractor on its own input and uses the result.
C3_FixedSourceReused ==
    [][/\ stain_matrix_source # <<>> => stain_matrix_source' # <<>>
       /\ CallStep("transform") =>
            IF stain_matrix_source # <<>>
            THEN /\ last'.extracted = <<>>
                 /\ last'.conc_called
                 /\ last'.src = repeat_stain_mat(stain_matrix_source[1].val,
                                                 last'.image)
            ELSE /\ last'.extracted = <<last'.image>>
                 /\ last'.conc_called =>
                      last'.src = repeat_stain_mat(
                                     ExtractStainMatrix(last'.image), last'.image)
      ]_vars

C3_Witness ==
    /\ last.op = "transform"
    /\ last.ok
    /\ last.extracted = <<>>
    /\ stain_matrix_source # <<>>
    /\ \E f \in fits_ok : f > stain_matrix_source[1].call

\* C4 as stated: a fixed source stain matrix is held only by an object that
\* has been fit (three states only).
C4_ThreeStates == stain_matrix_source # <<>> => maxC_target # <<>>

\* C4 amended: fit-ness and holding a fixed source are independent.  A fit that
\* returns leaves the object fit and does not touch the fixed source; only a
\* returning fit makes an object fit, only a returning fix_source_stain_matrix
\* gives it a fixed source (in any state, also unfit), and neither is undone.
C4_FourStates ==
    [][/\ CallStep("fit") /\ last'.ok
            => maxC_target' # <<>> /\ UNCHANGED stain_matrix_source
       /\ maxC_target # <<>> => maxC_target' # <<>>
       /\ stain_matrix_source # <<>> => stain_matrix_source' # <<>>
       /\ maxC_target = <<>> /\ maxC_target' # <<>>
            => CallStep("fit") /\ last'.ok
       /\ stain_matrix_source = <<>> /\ stain_matrix_source' # <<>>
            => CallStep("fix") /\ last'.ok
      ]_vars

C4_Witness ==
    /\ last.op = "fit"
    /\ last.ok
    /\ Cardinality(fits_ok) = 1
    /\ maxC_target # <<>>
    /\ stain_matrix_source # <<>>
    /\ stain_matrix_source[1].call < maxC_target[1].call

\* C10: the three target buffers are all absent, or all present and computed
\* by one and the same fit call that returned.
C10_TargetsConsistent ==
    \/ /\ stain_matrix_target = <<>>
       /\ target_concentrations = <<>>
       /\ maxC_target = <<>>
    \/ /\ stain_matrix_target # <<>>
       /\ target_concentrations # <<>>
       /\ maxC_target # <<>>
       /\ stain_matrix_target[1].call \in fits_ok
       /\ target_concentrations[1].call = stain_matrix_target[1].call
       /\ maxC_target[1].call = stain_matrix_target[1].call

\* ------------------------------------------------------------------------
\* Properties of sparse_encode, update_dict, get_concentrations, dict_learning
\* ------------------------------------------------------------------------

\* C5: sparse_encode with an algorithm outside {cd, ista} raises the
\* ValueError naming the algorithm, having called neither initialize_code nor
\* a solver (and having warned of nothing).
C5_InvalidAlgorithmNoWork ==
    enc.called /\ enc.algorithm \notin {"cd", "ista"}
        => /\ enc.res.outcome = "ValueError"
           /\ enc.res.message = enc.algorithm
           /\ enc.res.events = <<>>

\* the call the zero-initialisation warning is about
C6_Case ==
    enc.called /\ enc.init = "zero" /\ enc.algorithm = "iter-ridge" /\ enc.z0 = <<>>

\* C6 as stated: sparse_encode with init = 'zero', algorithm = 'iter-ridge'
\* and no z0 warns and then returns a code.
C6_ZeroInitWarningProceeds ==
    C6_Case
        => /\ \E j \in 1..Len(enc.res.events) : enc.res.events[j] = "warn"
           /\ enc.res.outcome = "return"

\* C6 amended: that call warns, goes on past the warning to initialize_code,
\* and then ends in the ValueError naming 'iter-ridge'; it returns no code.
C6_WarningThenValueError ==
    C6_Case
        => /\ enc.res.events = <<"warn", "initialize_code">>
           /\ enc.res.mode = "zero"
           /\ enc.res.outcome = "ValueError"
           /\ enc.res.message = "iter-ridge"

C6_Witness ==
    /\ C6_Case
    /\ enc.n_samples = MaxDim
    /\ enc.res.outcome = "ValueError"

\* the norm of atom k is 1 within 1%
UnitNorm(dictionary, k) ==
    LET n == Norm([f \in Features |-> dictionary[f][k]])
    IN  n >= Scale - Scale \div 100 /\ n <= Scale + Scale \div 100

\* C7: after update_dict every atom is non-zero with unit L2 norm.
C7_AtomsUnitNorm ==
    u_pc = "done" => \A k \in Components : UnitNorm(u_dictionary, k)

\* C8: a get_concentrations call that returns gives one result per input
\* image, result i computed from image i and stain matrix i.
C8_OneResultPerImage ==
    conc_call.called /\ conc_call.res.ok
        => /\ Len(conc_call.res.val) = Len(conc_call.image)
           /\ \A i \in 1..Len(conc_call.res.val) :
                /\ conc_call.res.val[i].img = OdFlatten(conc_call.image)[i]
                /\ conc_call.res.val[i].sm = conc_call.stain_matrix[i]

\* the sub-steps of one outer iteration, in order
Iteration(constrained) ==
    <<"sparse_encode", "lasso_loss",
      IF constrained THEN "update_dict" ELSE "update_dict_ridge">>

\* C9: when dict_learning returns it has performed exactly `steps` iterations,
\* each sparse_encode, lasso_loss, dictionary update in this order, and the
\* loss trace has `steps` entries, each one written.
C9_ExactlyStepsIterations ==
    d_pc = "done"
        => /\ d_i = d_args.steps
           /\ d_trace = Repeat(Iteration(d_args.constrained), d_args.steps)
           /\ Len(d_losses) = d_args.steps
           /\ \A j \in 1..Len(d_losses) : d_losses[j] = [set |-> TRUE, of |-> j]

C9_Witness ==
    /\ d_pc = "done"
    /\ d_args.steps = MaxSteps
    /\ ~d_args.constrained
    /\ d_args.persist
    /\ Len(d_trace) = 3 * MaxSteps
====
